---- MODULE Spec2Model ----
(***************************************************************************)
(* A model of guigaga's InterfaceBuilder (src/src/guigaga/interface.py):   *)
(*   - traverse_command_tree: command schema tree -> nested tabbed         *)
(*     interface (SpecTree);                                               *)
(*   - render_schemas / sort_schemas: the inputs wired to a block's run    *)
(*     trigger (SpecBlock);                                                *)
(*   - run_command: the generator that streams log steps and reports the   *)
(*     outputs (Spec: the host serialises the runs of a block; SpecConc:   *)
(*     the host's queue lets runs of one block overlap; FairSpec: Spec     *)
(*     with the progress the host and the interpreter guarantee).          *)
(* guigaga/introspect.py and guigaga/logger.py are not part of the         *)
(* sources at hand: the schema records and the Logger are modelled from    *)
(* the specification's sections 3, 4.4 and 9.                              *)
(***************************************************************************)
EXTENDS Integers, Sequences, FiniteSets, TLC

\* ------------------------------------------------------------------ bounds
MaxNodes == 4
MaxParams == 3
MaxRuns == 2
MaxChunks == 2
MaxOutputs == 2

\* ------------------------------------------------------------------ state
VARIABLES
    nodes,          \* the CommandSchema tree: nodes[1] is the root
    command_name,   \* InterfaceBuilder.command_name, the launcher command
    interface,      \* InterfaceBuilder.interface, the result of the traversal
    options,        \* command_schema.options of the block's command
    arguments,      \* command_schema.arguments of the block's command
    order,          \* co_varnames[:co_argcount] of the command's callable
    hide_not_required,  \* InterfaceBuilder.hide_not_required
    inputs,         \* the inputs create_block hands to btn.click
    catch_errors,   \* InterfaceBuilder.catch_errors
    out_values,     \* schema.type.value of the block's output-typed parameters
    exit_code,      \* logger.exit_code of the block's Logger (0: none)
    stdout,         \* where the process's standard output goes (0: the console,
                    \* r: the capture of run r, -1: a capture left behind)
    runs            \* the run_command generators of the block, one per slot

treeVars == <<nodes, command_name, interface>>
blockVars == <<options, arguments, order, hide_not_required, inputs>>
runVars == <<catch_errors, out_values, exit_code, stdout, runs>>
vars == <<nodes, command_name, interface,
          options, arguments, order, hide_not_required, inputs,
          catch_errors, out_values, exit_code, stdout, runs>>

Runs == 1..MaxRuns

\* The parts of the state a specification does not exercise stay as follows.
NotWired == <<[widget_of |-> <<>>, required |-> FALSE]>>

BlockIdle ==
    /\ options = <<>>
    /\ arguments = <<>>
    /\ order = <<>>
    /\ hide_not_required = FALSE
    /\ inputs = NotWired

TreeIdle ==
    /\ nodes = <<[name |-> "a", parent |-> 0, isGroup |-> FALSE, fn |-> TRUE]>>
    /\ command_name = "gui"
    /\ interface = [kind |-> "none"]

\* A slot no run has used yet.
IdleRun ==
    [pc |-> "idle", chunks |-> <<>>, outcome |-> "return", written |-> 0,
     fn |-> "none", queue |-> <<>>, logs_output |-> <<>>, steps |-> <<>>,
     saved |-> 0, capturing |-> FALSE]

RunIdle ==
    /\ catch_errors = TRUE
    /\ out_values = <<>>
    /\ exit_code = 0
    /\ stdout = 0
    /\ runs = [r \in Runs |-> IdleRun]

\* ============================================================ command tree
\* Names a click command can be registered under; "gui" is the default
\* launcher name.
Names == {"a", "b", "gui"}

\* The launcher names an application can choose (gui(command_name=...)).
LauncherNames == {"gui", "a"}

\* One CommandSchema: its name, its parent (0: none), whether the click
\* object is a Group, and whether it has a callback (schema.function).
CommandSchema(nm, par, grp, f) ==
    [name |-> nm, parent |-> par, isGroup |-> grp, fn |-> f]

\* schema.subcommands.values(): the children in declaration order.
subcommands(s) ==
    SelectSeq([j \in 1..Len(nodes) |-> j], LAMBDA j : nodes[j].parent = s)

NoInterface == [kind |-> "none"]
Raised(e) == [kind |-> "error", err |-> e]
Block(nm) == [kind |-> "block", name |-> nm]
TabbedInterface(hdr, tabs) ==
    [kind |-> "tabs", header |-> hdr,
     tab_names |-> [k \in 1..Len(tabs) |-> tabs[k][1]],
     interface_list |-> [k \in 1..Len(tabs) |-> tabs[k][2]]]

\* create_block(schema) returns (schema.name, block).  sort_schemas reads
\* function.__code__, which raises AttributeError when the schema has no
\* callback.
create_block(s) ==
    IF nodes[s].fn
    THEN <<nodes[s].name, Block(nodes[s].name)>>
    ELSE <<nodes[s].name, Raised("AttributeError")>>

\* Mutant: the launcher command is not skipped.
IsLauncherNever(c) == FALSE

\* if subcommand.name == self.command_name: continue
IsLauncher(c) == nodes[c].name = command_name

\* Mutant: a tab container is made for a single entry too.
NeedsTabsFromOne(tab_blocks) == Len(tab_blocks) >= 1

\* if len(tab_blocks) > 1
NeedsTabs(tab_blocks) == Len(tab_blocks) > 1

\* Mutant: the entry is put first, reversing the declaration order.
PrependTab(tab_blocks, entry) == <<entry>> \o tab_blocks

\* tab_blocks.append(entry)
AppendTab(tab_blocks, entry) == Append(tab_blocks, entry)

\* The first exception raised while the entries were built, if any.
FirstError(tab_blocks) ==
    LET bad == {k \in 1..Len(tab_blocks) : tab_blocks[k][2].kind = "error"}
    IN  IF bad = {} THEN NoInterface
        ELSE tab_blocks[CHOOSE k \in bad : \A m \in bad : k <= m][2]

RECURSIVE traverse_command_tree(_)
RECURSIVE LoopSubcommands(_, _, _)

\* for subcommand in schema.subcommands.values(): ...
LoopSubcommands(subs, k, tab_blocks) ==
    IF k > Len(subs) THEN tab_blocks
    ELSE LET c == subs[k] IN
         IF IsLauncher(c) THEN LoopSubcommands(subs, k + 1, tab_blocks)
         ELSE IF subcommands(c) # <<>>
              THEN LET sub_interface == traverse_command_tree(c) IN
                   IF sub_interface.kind = "error"
                   THEN AppendTab(tab_blocks, <<nodes[c].name, sub_interface>>)
                   ELSE LoopSubcommands(subs, k + 1,
                            AppendTab(tab_blocks, <<nodes[c].name, sub_interface>>))
              ELSE LET block == create_block(c) IN
                   IF block[2].kind = "error"
                   THEN AppendTab(tab_blocks, block)
                   ELSE LoopSubcommands(subs, k + 1, AppendTab(tab_blocks, block))

traverse_command_tree(s) ==
    LET tab_blocks ==
            IF subcommands(s) = <<>>
            THEN <<create_block(s)>>
            ELSE LoopSubcommands(subcommands(s), 1, <<>>)
    IN  IF FirstError(tab_blocks).kind = "error" THEN FirstError(tab_blocks)
        ELSE IF NeedsTabs(tab_blocks)
             THEN TabbedInterface(nodes[s].name = "root", tab_blocks)
        ELSE IF Len(tab_blocks) = 1 THEN tab_blocks[1][2]
        ELSE Raised("ValueError")

\* ------------------------------------------------------------ tree actions
\* The click application before the interface is built: a Group (introspected
\* under the name "root") or a single Command (under its own name).
InitTree ==
    /\ \/ \E f \in BOOLEAN : nodes = <<CommandSchema("root", 0, TRUE, f)>>
       \/ \E nm \in Names : nodes = <<CommandSchema(nm, 0, FALSE, TRUE)>>
    /\ command_name \in LauncherNames
    /\ interface = NoInterface
    /\ BlockIdle
    /\ RunIdle

\* group.add_command / @group.command: a command or a group is declared
\* under a group, after the ones declared before it.
AddCommand(p, nm, grp, f) ==
    /\ interface = NoInterface
    /\ Len(nodes) < MaxNodes
    /\ p \in 1..Len(nodes)
    /\ nodes[p].isGroup
    /\ \A j \in 1..Len(nodes) : nodes[j].parent = p => nodes[j].name # nm
    /\ nodes' = Append(nodes, CommandSchema(nm, p, grp, f))
    /\ UNCHANGED <<command_name, interface>>
    /\ UNCHANGED <<blockVars, runVars>>

\* InterfaceBuilder.__init__: self.interface = self.traverse_command_tree(schemas)
Build ==
    /\ interface = NoInterface
    /\ interface' = traverse_command_tree(1)
    /\ UNCHANGED <<nodes, command_name>>
    /\ UNCHANGED <<blockVars, runVars>>

NextTree ==
    \/ \E p \in 1..MaxNodes, nm \in Names, f \in BOOLEAN :
          \/ AddCommand(p, nm, TRUE, f)
          \/ AddCommand(p, nm, FALSE, TRUE)
    \/ Build

SpecTree == InitTree /\ [][NextTree]_vars

\* ------------------------------------------------------ tree: the claims
Built == interface # NoInterface

\* The result tree building gives for node s (the root's is self.interface).
ResultOf(s) == IF s = 1 THEN interface ELSE traverse_command_tree(s)

\* The children of s that are not the launcher command, in declaration order.
VisibleChildren(s) ==
    SelectSeq(subcommands(s), LAMBDA c : nodes[c].name # command_name)

\* What tree building gives for a child taken alone.
ChildResult(c) ==
    IF subcommands(c) # <<>> THEN traverse_command_tree(c)
    ELSE IF nodes[c].fn THEN Block(nodes[c].name) ELSE Raised("AttributeError")

Groups == {s \in 1..Len(nodes) : nodes[s].isGroup}

ExactTabs(s) ==
    LET r == ResultOf(s)
        vis == VisibleChildren(s)
    IN  /\ r.kind = "tabs"
        /\ r.tab_names = [k \in 1..Len(vis) |-> nodes[vis[k]].name]
        /\ r.interface_list = [k \in 1..Len(vis) |-> ChildResult(vis[k])]

\* C6 (as stated): every group with two or more visible children yields a
\* Tabbed Container whose tabs are exactly its children in declaration order
\* without the launcher command, labelled with the child names.
C6_TabsForEveryWideGroup ==
    Built => \A s \in Groups : Len(VisibleChildren(s)) >= 2 => ExactTabs(s)

\* C6 (amended): the same for every group with two or more visible children
\* all of which build; when a visible child fails to build, the group's
\* building fails with that child's error and no container is returned.
C6_TabsInDeclarationOrder ==
    Built =>
      \A s \in Groups :
        LET vis == VisibleChildren(s)
            bad == {k \in 1..Len(vis) : ChildResult(vis[k]).kind = "error"}
        IN  Len(vis) >= 2 =>
              IF bad = {} THEN ExactTabs(s)
              ELSE ResultOf(s) =
                     ChildResult(vis[CHOOSE k \in bad : \A m \in bad : k <= m])

\* C6 witness: the root lists "b", then the launcher, then "a"; its interface
\* has the tabs "b", "a".
C6_Witness ==
    /\ Built
    /\ Len(subcommands(1)) = 3
    /\ nodes[subcommands(1)[2]].name = command_name
    /\ interface.kind = "tabs"
    /\ interface.tab_names = <<"b", "a">>

\* C7 (as stated): tree building fails for every group with zero visible
\* entries, a group with no children at all included, and returns no
\* presentation node for it.
C7_EmptyGroupFails ==
    Built =>
      \A s \in Groups :
        VisibleChildren(s) = <<>> => ResultOf(s).kind = "error"

\* C7 (amended): tree building fails with the construction error for every
\* group that has children of which none is visible (its only child is the
\* launcher command); a group with no children at all is built like a leaf:
\* a Block, or an AttributeError when it has no callable.
C7_LauncherOnlyGroupFails ==
    Built =>
      \A s \in Groups :
        VisibleChildren(s) = <<>> =>
          IF subcommands(s) # <<>>
          THEN ResultOf(s) = Raised("ValueError")
          ELSE ResultOf(s) = IF nodes[s].fn THEN Block(nodes[s].name)
                             ELSE Raised("AttributeError")

\* C7 witness: the root group's only child is the launcher command and the
\* build ended with the construction error.
C7_Witness ==
    /\ Built
    /\ nodes[1].isGroup
    /\ Len(subcommands(1)) = 1
    /\ nodes[subcommands(1)[1]].name = command_name
    /\ interface = Raised("ValueError")

RECURSIVE NoNarrowTabs(_)
NoNarrowTabs(node) ==
    node.kind = "tabs" =>
      /\ Len(node.tab_names) >= 2
      /\ \A k \in 1..Len(node.interface_list) : NoNarrowTabs(node.interface_list[k])

\* C8: every Tabbed Container of a built interface holds at least two tabs,
\* and a group with exactly one visible child yields that child's node itself.
C8_NoSingleTab ==
    Built =>
      /\ NoNarrowTabs(interface)
      /\ \A s \in Groups :
           Len(VisibleChildren(s)) = 1 =>
             ResultOf(s) = ChildResult(VisibleChildren(s)[1])

\* C8 witness: the root has the launcher and one other command, and its
\* interface is that command's Block.
C8_Witness ==
    /\ Built
    /\ Len(subcommands(1)) = 2
    /\ Len(VisibleChildren(1)) = 1
    /\ interface = Block(nodes[VisibleChildren(1)[1]].name)

\* ============================================================ block inputs
\* Text is a sequence of characters, so that stripping and comparing names
\* is computed and not assumed.
Str_x == <<"x">>
Str_s == <<"s">>
Str_t == <<"t">>
Str_ctx == <<"c", "t", "x">>
Flag_x == <<"-", "-", "x">>
Flag_x_y == <<"-", "-", "x", "-", "y">>
Flag_n == <<"-", "n">>
Flag_nm == <<"-", "-", "n", "m">>

\* The flag spellings an option is declared with (click's param.opts) and
\* the names an argument is declared with.
OptionDecls == {<<Flag_x>>, <<Flag_x_y>>, <<Flag_n, Flag_nm>>, <<Flag_nm, Flag_n>>}
ArgumentDecls == {Str_s, Str_t}

RECURSIVE lstrip(_)
\* str.lstrip("-")
lstrip(t) == IF t # <<>> /\ Head(t) = "-" THEN lstrip(Tail(t)) ELSE t

\* click's name of the callable's parameter for an option: the first spelling
\* with two dashes, else the first one, without its leading dashes and with
\* "-" replaced by "_".
ClickParamName(opts) ==
    LET long == {k \in 1..Len(opts) : Len(opts[k]) >= 2 /\ opts[k][2] = "-"}
        pick == IF long = {} THEN opts[1]
                ELSE opts[CHOOSE k \in long : \A m \in long : k <= m]
        bare == lstrip(pick)
    IN  [i \in 1..Len(bare) |-> IF bare[i] = "-" THEN "_" ELSE bare[i]]

\* OptionSchema: name is the list of flag spellings; ArgumentSchema: name is
\* a string.  param is the parameter of the callable click passes it as.
OptionSchema(opts, req) ==
    [kind |-> "option", name |-> opts, required |-> req,
     param |-> ClickParamName(opts)]
ArgumentSchema(nm, req) ==
    [kind |-> "argument", name |-> nm, required |-> req, param |-> nm]

\* get_component(schema): the widget rendered for the schema.
get_component(schema) == [widget_of |-> schema.param, required |-> schema.required]

\* A Python dict as its (key, value) items in insertion order.
DictSet(d, key, val) ==
    IF \E i \in 1..Len(d) : d[i][1] = key
    THEN [i \in 1..Len(d) |-> IF d[i][1] = key THEN <<key, val>> ELSE d[i]]
    ELSE Append(d, <<key, val>>)
DictHas(d, key) == \E i \in 1..Len(d) : d[i][1] = key
DictGet(d, key) == d[CHOOSE i \in 1..Len(d) : d[i][1] = key][2]

RECURSIVE DictFromItems(_, _)
DictFromItems(items, d) ==
    IF items = <<>> THEN d
    ELSE DictFromItems(Tail(items), DictSet(d, Head(items)[1], Head(items)[2]))

\* schema.name if isinstance(schema.name, str) else schema.name[0].lstrip("-")
SchemaKey(schema) ==
    IF schema.kind = "argument" THEN schema.name ELSE lstrip(schema.name[1])

\* render_schemas(command_schema, render_required=..., render_not_required=...)
render_schemas(render_required, render_not_required) ==
    LET schemas == SelectSeq(options \o arguments,
                     LAMBDA sc : \/ (render_required /\ sc.required)
                                 \/ (render_not_required /\ ~sc.required))
        schemas_name_map ==
            DictFromItems([k \in 1..Len(schemas) |-> <<SchemaKey(schemas[k]), schemas[k]>>], <<>>)
    IN  [k \in 1..Len(schemas_name_map) |->
            <<schemas_name_map[k][1], get_component(schemas_name_map[k][2])>>]

\* has_advanced_options(command_schema)
has_advanced_options ==
    \E k \in 1..Len(options \o arguments) : ~(options \o arguments)[k].required

\* create_block, the rendering of the parameter widgets: all at once, or the
\* required ones and then the others under "Advanced Options".
RenderedSchemas ==
    IF hide_not_required
    THEN LET req == render_schemas(TRUE, FALSE) IN
         IF has_advanced_options
         THEN DictFromItems(render_schemas(FALSE, TRUE), req)
         ELSE req
    ELSE render_schemas(TRUE, TRUE)

\* sort_schemas: [schemas[name] for name in order if name in schemas]
sort_schemas(schemas) ==
    LET present == SelectSeq(order, LAMBDA nm : DictHas(schemas, nm))
    IN  [k \in 1..Len(present) |-> DictGet(schemas, present[k])]

\* A command before its block is built: no parameter yet; the callable takes
\* the click context first when it is decorated with click.pass_context.
InitBlock ==
    /\ options = <<>>
    /\ arguments = <<>>
    /\ order \in {<<>>, <<Str_ctx>>}
    /\ hide_not_required \in BOOLEAN
    /\ inputs = NotWired
    /\ TreeIdle
    /\ RunIdle

InsertAt(sq, pos, e) == SubSeq(sq, 1, pos - 1) \o <<e>> \o SubSeq(sq, pos, Len(sq))

Declared == options \o arguments

\* @click.option(...): the option is declared, and the callable takes its
\* parameter at some position of its signature.
DeclareOption(opts, req, pos) ==
    /\ inputs = NotWired
    /\ Len(Declared) < MaxParams
    /\ pos \in 1..Len(order) + 1
    /\ \A k \in 1..Len(order) : order[k] # ClickParamName(opts)
    /\ options' = Append(options, OptionSchema(opts, req))
    /\ order' = InsertAt(order, pos, ClickParamName(opts))
    /\ UNCHANGED <<arguments, hide_not_required, inputs>>
    /\ UNCHANGED <<treeVars, runVars>>

\* @click.argument(...)
DeclareArgument(nm, req, pos) ==
    /\ inputs = NotWired
    /\ Len(Declared) < MaxParams
    /\ pos \in 1..Len(order) + 1
    /\ \A k \in 1..Len(order) : order[k] # nm
    /\ arguments' = Append(arguments, ArgumentSchema(nm, req))
    /\ order' = InsertAt(order, pos, nm)
    /\ UNCHANGED <<options, hide_not_required, inputs>>
    /\ UNCHANGED <<treeVars, runVars>>

\* create_block: inputs = self.sort_schemas(command_schema, schemas)
WireInputs ==
    /\ inputs = NotWired
    /\ inputs' = sort_schemas(RenderedSchemas)
    /\ UNCHANGED <<options, arguments, order, hide_not_required>>
    /\ UNCHANGED <<treeVars, runVars>>

NextBlock ==
    \/ \E opts \in OptionDecls, req \in BOOLEAN, pos \in 1..MaxParams + 1 :
          DeclareOption(opts, req, pos)
    \/ \E nm \in ArgumentDecls, req \in BOOLEAN, pos \in 1..MaxParams + 1 :
          DeclareArgument(nm, req, pos)
    \/ WireInputs

SpecBlock == InitBlock /\ [][NextBlock]_vars

\* ----------------------------------------------------- block: the claims
\* The callable's parameters that are parameters of the command, in the
\* order of its signature.
CommandParams ==
    SelectSeq(order, LAMBDA nm : \E k \in 1..Len(Declared) : Declared[k].param = nm)

\* C9: the inputs wired to the run trigger are the rendered widgets of all
\* options and arguments, each once, in the order of the callable's parameters.
C9_InputsInCallableOrder ==
    inputs # NotWired =>
      /\ Len(inputs) = Len(Declared)
      /\ \A k \in 1..Len(inputs) : inputs[k].widget_of = CommandParams[k]

\* ================================================================== runs
\* What a callable writes to its standard output, chunk by chunk: "X", then
\* "Y", ... up to MaxChunks chunks.
ChunkText == <<"X", "Y", "Z", "W">>
Scripts == {SubSeq(ChunkText, 1, k) : k \in 0..MaxChunks}

\* The chunk the Logger appends to the log for a caught fault.
FaultText == "ERR"

\* The slots whose generator is live: started and neither exhausted, failed
\* nor closed.
Active == {r \in Runs : runs[r].pc \in {"running", "final", "abandoned"}}

\* Mutant: the run asks the Logger to catch faults whatever the flag says.
CatchAlways == TRUE

\* logger.intercept_stdin_stdout(..., catch_errors=self.catch_errors)
InterceptCatchErrors == catch_errors

\* Mutant: the chunk replaces the log instead of extending it.
Overwrite(logs_output, log_chunk) == <<log_chunk>>

\* logs_output += log_chunk
Accumulate(logs_output, log_chunk) == logs_output \o <<log_chunk>>

\* Mutant: the exit marker is not looked at.
ExitMarkedNever == FALSE

\* if logger.exit_code: return ...
ExitMarked == exit_code # 0

\* Mutant: the output tab is shown whether or not there are outputs.
RenderAlways == TRUE

\* render_outputs = False; if outputs: render_outputs = True
render_outputs == out_values # <<>>

\* get_output_values(command_schema): schema.type.value of each output-typed
\* parameter, in schema order.
get_output_values == out_values

\* yield [logs_output, gr.Tab("Output", visible=False), None]
\* (final tells which of the two yield statements made the step; 0 is None.)
LogStep(logs_output) ==
    [logs |-> logs_output, visible |-> FALSE, values |-> <<0>>, final |-> FALSE]

\* yield [logs_output, gr.Tab("Output", visible=render_outputs), *values]
FinalStep(logs_output) ==
    [logs |-> logs_output, visible |-> render_outputs, values |-> get_output_values,
     final |-> TRUE]

\* Mutant: the capture is left in place when the Logger's generator ends.
KeepCapture(r) == stdout

\* The end of the Logger's scoped capture: the destination saved when the
\* scope was entered is put back.
RestoredStdout(r) == runs[r].saved

\* An InterfaceBuilder for a command with 0..MaxOutputs output-typed
\* parameters (their values, e.g. Download file names, numbered from 1), with
\* catch_errors as the application set it; no run yet.
InitRun ==
    /\ catch_errors \in BOOLEAN
    /\ out_values \in {[k \in 1..n |-> k] : n \in 0..MaxOutputs}
    /\ exit_code = 0
    /\ stdout = 0
    /\ runs = [r \in Runs |-> IdleRun]
    /\ TreeIdle
    /\ BlockIdle

\* A capture whose generator is gone: what is written there is read by no run.
DeadCapture == 0 - 1

\* The Logger's generator starts: it enters its scoped capture (the standard
\* output now goes to this run's capture) and a new execution has no exit
\* marker.
LoggerStart(r) ==
    /\ stdout' = r
    /\ exit_code' = 0

\* The destination the scoped capture will put back when it is left.
SavedStdout == IF Active = {} /\ stdout # 0 THEN DeadCapture ELSE stdout

\* btn.click: the host calls run_command and takes its first step, which
\* makes the Logger's generator for this call and starts it; logs_output is
\* empty and no step was yielded.  The host runs at most `limit` generators
\* of the block at a time.  A new generator takes the first free slot; once
\* no generator is live the finished ones are garbage and the slots are free
\* again.
Trigger(r, script, result, limit) ==
    LET fresh == [pc |-> "running", chunks |-> script, outcome |-> result,
                  written |-> 0, fn |-> "running", queue |-> <<>>,
                  logs_output |-> <<>>, steps |-> <<>>,
                  saved |-> SavedStdout, capturing |-> TRUE]
    IN
    /\ Cardinality(Active) < limit
    /\ IF Active = {}
       THEN /\ r = 1
            /\ runs' = [q \in Runs |-> IF q = r THEN fresh ELSE IdleRun]
       ELSE /\ runs[r].pc = "idle"
            /\ \A q \in Runs : q < r => runs[q].pc # "idle"
            /\ runs' = [runs EXCEPT ![r] = fresh]
    /\ LoggerStart(r)
    /\ UNCHANGED <<catch_errors, out_values>>
    /\ UNCHANGED <<treeVars, blockVars>>

\* The callable writes its next chunk to the standard output: it lands in
\* the capture the output is redirected to at that moment.
CallableWrite(r) ==
    /\ runs[r].pc = "running"
    /\ runs[r].fn = "running"
    /\ runs[r].written < Len(runs[r].chunks)
    /\ LET chunk == runs[r].chunks[runs[r].written + 1]
           wrote == [runs EXCEPT ![r].written = @ + 1]
       IN  runs' = IF stdout \in Runs
                   THEN [wrote EXCEPT ![stdout].queue = Append(@, chunk)]
                   ELSE wrote
    /\ UNCHANGED <<catch_errors, out_values, exit_code, stdout>>
    /\ UNCHANGED <<treeVars, blockVars>>

\* The callable returns.
CallableReturn(r) ==
    /\ runs[r].pc = "running"
    /\ runs[r].fn = "running"
    /\ runs[r].written = Len(runs[r].chunks)
    /\ runs[r].outcome = "return"
    /\ runs' = [runs EXCEPT ![r].fn = "returned"]
    /\ UNCHANGED <<catch_errors, out_values, exit_code, stdout>>
    /\ UNCHANGED <<treeVars, blockVars>>

\* The callable raises.  With catch_errors the Logger appends the formatted
\* fault to the log and records a nonzero exit marker; without it the fault
\* is left to propagate.
CallableRaise(r) ==
    /\ runs[r].pc = "running"
    /\ runs[r].fn = "running"
    /\ runs[r].written = Len(runs[r].chunks)
    /\ runs[r].outcome = "raise"
    /\ IF InterceptCatchErrors
       THEN /\ runs' = [runs EXCEPT ![r].fn = "raised",
                                    ![r].queue = Append(@, FaultText)]
            /\ exit_code' = 1
       ELSE /\ runs' = [runs EXCEPT ![r].fn = "raised"]
            /\ exit_code' = exit_code
    /\ UNCHANGED <<catch_errors, out_values, stdout>>
    /\ UNCHANGED <<treeVars, blockVars>>

\* for log_chunk in log_gen: logs_output += log_chunk; yield [...]
\* The Logger yields the oldest captured chunk and run_command yields a step.
EmitLog(r) ==
    /\ runs[r].pc = "running"
    /\ runs[r].queue # <<>>
    /\ LET logs_output == Accumulate(runs[r].logs_output, Head(runs[r].queue))
       IN  runs' = [runs EXCEPT ![r].queue = Tail(@),
                                ![r].logs_output = logs_output,
                                ![r].steps = Append(@, LogStep(logs_output))]
    /\ UNCHANGED <<catch_errors, out_values, exit_code, stdout>>
    /\ UNCHANGED <<treeVars, blockVars>>

\* The Logger's generator ends (the callable is over and every captured chunk
\* was yielded), leaving its scoped capture; then a fault that was not caught
\* propagates out of run_command, a recorded exit marker ends it without a
\* further step, and otherwise it yields the final step.
EndOfLog(r) ==
    /\ runs[r].pc = "running"
    /\ runs[r].queue = <<>>
    /\ runs[r].fn \in {"returned", "raised"}
    /\ stdout' = RestoredStdout(r)
    /\ LET released == [runs EXCEPT ![r].capturing = FALSE] IN
       IF runs[r].fn = "raised" /\ ~InterceptCatchErrors
       THEN runs' = [released EXCEPT ![r].pc = "raised"]
       ELSE IF ExitMarked
       THEN runs' = [released EXCEPT ![r].pc = "done"]
       ELSE runs' = [released EXCEPT
                       ![r].pc = "final",
                       ![r].steps = Append(@, FinalStep(runs[r].logs_output))]
    /\ UNCHANGED <<catch_errors, out_values, exit_code>>
    /\ UNCHANGED <<treeVars, blockVars>>

\* The host asks for a step after the final one: run_command is exhausted.
Exhaust(r) ==
    /\ runs[r].pc = "final"
    /\ runs' = [runs EXCEPT ![r].pc = "done"]
    /\ UNCHANGED <<catch_errors, out_values, exit_code, stdout>>
    /\ UNCHANGED <<treeVars, blockVars>>

\* The host stops consuming the steps of a run that has yielded one.
Abandon(r) ==
    /\ runs[r].pc \in {"running", "final"}
    /\ runs[r].steps # <<>>
    /\ runs' = [runs EXCEPT ![r].pc = "abandoned"]
    /\ UNCHANGED <<catch_errors, out_values, exit_code, stdout>>
    /\ UNCHANGED <<treeVars, blockVars>>

\* The abandoned generator is closed: GeneratorExit unwinds run_command and
\* the Logger's generator, which leaves its scoped capture if it is still in it.
Close(r) ==
    /\ runs[r].pc = "abandoned"
    /\ stdout' = IF runs[r].capturing THEN RestoredStdout(r) ELSE stdout
    /\ runs' = [runs EXCEPT ![r].pc = "closed", ![r].capturing = FALSE]
    /\ UNCHANGED <<catch_errors, out_values, exit_code>>
    /\ UNCHANGED <<treeVars, blockVars>>

Callable(r) == CallableWrite(r) \/ CallableReturn(r) \/ CallableRaise(r)
Host(r) == EmitLog(r) \/ EndOfLog(r) \/ Exhaust(r) \/ Abandon(r)

RunStep ==
    \E r \in Runs :
       \/ CallableWrite(r)
       \/ CallableReturn(r)
       \/ CallableRaise(r)
       \/ EmitLog(r)
       \/ EndOfLog(r)
       \/ Exhaust(r)
       \/ Abandon(r)
       \/ Close(r)

\* The host's queue runs one generator of the block at a time.
Next ==
    \/ \E r \in Runs, script \in Scripts, result \in {"return", "raise"} :
          Trigger(r, script, result, 1)
    \/ RunStep

\* The application raised the queue's concurrency limit (queue_kwargs): runs
\* of the block overlap.
NextConc ==
    \/ \E r \in Runs, script \in Scripts, result \in {"return", "raise"} :
          Trigger(r, script, result, MaxRuns)
    \/ RunStep

Spec == InitRun /\ [][Next]_vars

SpecConc == InitRun /\ [][NextConc]_vars

\* The callable's thread runs on, the host takes the next step or abandons
\* the run, and the interpreter closes an abandoned generator.
FairSpec ==
    /\ Spec
    /\ \A r \in Runs : /\ WF_vars(Callable(r))
                       /\ WF_vars(Host(r))
                       /\ WF_vars(Close(r))

\* ------------------------------------------------------- runs: the claims
Last(sq) == sq[Len(sq)]

\* C1: in a run every step before the last reports the outputs hidden; when
\* the run completes with no exit marker recorded its last step reports them
\* visible exactly if the block has an output-typed parameter; a block
\* without one never reports them visible.
C1_OutputsVisibleOnlyAtEnd ==
    \A r \in Runs :
      LET st == runs[r].steps IN
      /\ \A k \in 1..Len(st) - 1 : ~st[k].visible
      /\ (runs[r].pc \in {"final", "done"} /\ exit_code = 0) =>
            /\ st # <<>>
            /\ Last(st).visible = (Len(out_values) >= 1)
      /\ Len(out_values) = 0 => \A k \in 1..Len(st) : ~st[k].visible

\* C1 witness: a run of a block with an output that wrote a chunk and
\* completed: a hidden step, then the last step with the outputs visible.
C1_Witness ==
    \E r \in Runs :
      /\ runs[r].pc = "done"
      /\ exit_code = 0
      /\ Len(out_values) >= 1
      /\ Len(runs[r].steps) >= 2
      /\ ~runs[r].steps[1].visible
      /\ Last(runs[r].steps).visible

\* The chunks captured for run r, in the order they are produced: what the
\* callable writes, then the description of its fault.
Produced(r) == runs[r].chunks \o <<FaultText>>

\* C2: the k-th log step of a run carries the first k chunks in the order
\* the callable produced them; the final step carries the log of the step
\* before it, which is everything the callable wrote.
C2_LogGrowsInOrder ==
    \A r \in Runs :
      LET st == runs[r].steps IN
      \A k \in 1..Len(st) :
        IF st[k].final
        THEN /\ k = Len(st)
             /\ st[k].logs = IF k = 1 THEN <<>> ELSE st[k - 1].logs
             /\ st[k].logs = runs[r].chunks
        ELSE st[k].logs = SubSeq(Produced(r), 1, k)

\* C2 witness: a callable wrote "X" then "Y"; the log states were "X", "XY".
C2_Witness ==
    \E r \in Runs :
      /\ runs[r].chunks = <<"X", "Y">>
      /\ Len(runs[r].steps) >= 2
      /\ runs[r].steps[1].logs = <<"X">>
      /\ runs[r].steps[2].logs = <<"X", "Y">>

\* C3: when the callable raises and catch_errors is set, no step of the run
\* reports the outputs visible or carries output values, whatever the number
\* of output-typed parameters, and the run ends on a hidden step.
C3_CaughtFaultHidesOutputs ==
    \A r \in Runs :
      (catch_errors /\ runs[r].outcome = "raise" /\ runs[r].pc # "idle") =>
        LET st == runs[r].steps IN
        /\ \A k \in 1..Len(st) : ~st[k].visible /\ ~st[k].final /\ st[k].values = <<0>>
        /\ runs[r].pc \notin {"final", "raised"}
        /\ runs[r].pc = "done" => st # <<>> /\ ~Last(st).visible

\* C3 witness: a run of a block with an output-typed parameter whose callable
\* raised ended after its last, hidden, step.
C3_Witness ==
    \E r \in Runs :
      /\ catch_errors
      /\ runs[r].fn = "raised"
      /\ runs[r].pc = "done"
      /\ Len(out_values) >= 1
      /\ runs[r].steps # <<>>

InLog(text, logs) == \E i \in 1..Len(logs) : logs[i] = text

\* C4: without catch_errors a fault of the callable propagates to the caller
\* of the run (no description of it is logged, no exit marker recorded, the
\* run does not end normally); with catch_errors it never propagates, a
\* nonzero exit marker is recorded, and the log the run ends with describes it.
C4_ErrorPolicy ==
    \A r \in Runs :
      runs[r].fn = "raised" =>
        IF catch_errors
        THEN /\ runs[r].pc # "raised"
             /\ exit_code # 0
             /\ runs[r].pc = "done" =>
                  runs[r].steps # <<>> /\ InLog(FaultText, Last(runs[r].steps).logs)
        ELSE /\ runs[r].pc \in {"running", "raised", "abandoned", "closed"}
             /\ (runs[r].pc = "running" => runs[r].capturing)
             /\ exit_code = 0
             /\ \A k \in 1..Len(runs[r].steps) : ~InLog(FaultText, runs[r].steps[k].logs)

\* C4 witness: without catch_errors, the callable raised after writing and
\* the fault came out of the run.
C4_Witness ==
    \E r \in Runs :
      /\ ~catch_errors
      /\ runs[r].fn = "raised"
      /\ runs[r].pc = "raised"
      /\ runs[r].steps # <<>>

\* C5: a run reports what it would report alone: when its own callable
\* returned normally and the host consumed all its steps, its last step is
\* the final one, reporting the outputs.
C5_RunsIndependent ==
    \A r \in Runs :
      (runs[r].pc = "done" /\ runs[r].fn = "returned") =>
        /\ runs[r].steps # <<>>
        /\ Last(runs[r].steps).final
        /\ Last(runs[r].steps).visible = (Len(out_values) >= 1)

\* C10: the capture a run enters is eventually left, however the run ends,
\* and when no run is live the standard output is the console again.
C10_CaptureReleased ==
    /\ \A r \in Runs : runs[r].capturing ~> ~runs[r].capturing
    /\ [](Active = {} => stdout = 0)

\* C10 witness: a run abandoned while its callable was still running was
\* closed, and the standard output is the console.
C10_Witness ==
    \E r \in Runs :
      /\ runs[r].pc = "closed"
      /\ runs[r].fn = "running"
      /\ ~runs[r].capturing
      /\ stdout = 0

====
